---- MODULE Spec2Model ----
(***************************************************************************)
(* Model of resumableUpload (src/resumableUploadForGoogleAPIs.js): the     *)
(* async Promise executor, the stream.Transform it reads from, the 'data'  *)
(* and 'end' handlers with their upload closures, and the server that      *)
(* answers the session POST and the chunk PUTs.                            *)
(*                                                                         *)
(* The source content is the byte sequence <<1, 2, .., srcLen>>: every     *)
(* byte is distinct, so a lost, duplicated or reordered byte is visible.   *)
(*                                                                         *)
(* Runtime behaviour the code relies on (Node.js streams and promises):    *)
(*  - a throw inside the async executor rejects the executor's own         *)
(*    promise, not the promise that resumableUpload returned;              *)
(*  - a fragment reaching streamTrans is emitted as 'data' at once when    *)
(*    the stream flows and its buffer is empty, and is buffered otherwise; *)
(*  - Readable.read() that empties the buffer of a stream whose EOF is     *)
(*    already known schedules 'end' for the next tick BEFORE it emits the  *)
(*    'data' event, and that 'end' is emitted whether or not the 'data'    *)
(*    handler paused the stream;                                           *)
(*  - resume() takes effect on a later tick: the continuations of the      *)
(*    awaiting handler run first;                                          *)
(*  - pipe() does not forward the 'error' event of its source: an 'error'  *)
(*    of mainData, which has no listener, is an uncaught exception and     *)
(*    ends the process.                                                    *)
(***************************************************************************)
EXTENDS Integers, Sequences, FiniteSets, TLC

\* ------------------------------------------------------------- bounds
MaxLen == 3
MaxChunk == 2
MaxErrors == 4

\* ------------------------------------------------------ program constants
MaxRetry == 3
StatusOK == 200
StatusContinue == 308

\* ------------------------------------------------------------- inputs
SrcLens == 0..MaxLen
\* dataSize as the caller configures it for a source of len bytes: missing
\* (0), right (len) or short by one (len - 1, which is -1 for an empty source)
DataSizes(len) == {0, len, len - 1}
ChunkSizes == 1..MaxChunk
PostStatuses == {200, 403}
\* response bodies: "j" parses as JSON, "t" does not
Texts == {"j", "t"}
\* the answers other than 200 and 308 the server gives to a PUT: 201 is
\* res.ok but not 200, 500 is not res.ok
ErrAnswers == {<<201, "j">>, <<500, "t">>}
PutAnswers == {<<StatusOK, t>> : t \in Texts} \cup {<<StatusContinue, "">>}
              \cup ErrAnswers

VARIABLES
  cfg,        \* the argument object after destructuring with its defaults
  srcLen,     \* number of bytes the source really holds
  pc,         \* position of the executor ("crashed": the process ended)
  execErr,    \* the Error thrown inside the async executor ("" when none)
  calls,      \* calls of resolve / reject, in order
  piped,      \* mainData exists and is piped into streamTrans
  srcPos,     \* bytes mainData has written into streamTrans so far
  rbuf,       \* readable buffer of streamTrans: fragments not yet emitted
  ended,      \* streamTrans has seen EOF (push(null))
  flowing,    \* "init" (null), "flowing" (true), "paused" (false)
  endSched,   \* endReadable() was called: 'end' comes on the next tick
  endEmitted, \* 'end' was emitted
  location,   \* session URL from the POST ("" before)
  startByte,
  bufferData, \* list of buffers
  up,         \* the upload closures of the 'data' and the 'end' handler
  gets, posts,\* GET fileUrl and POST resumableUrl requests issued
  puts,       \* every PUT issued, in order, with the answer once it came
  errs        \* error answers given so far by the server

vars == <<cfg, srcLen, pc, execErr, calls, piped, srcPos, rbuf, ended, flowing,
          endSched, endEmitted, location, startByte, bufferData, up,
          gets, posts, puts, errs>>

\* ------------------------------------------------------------ helpers
RECURSIVE Concat(_)
Concat(bufs) ==
  IF bufs = <<>> THEN <<>> ELSE Head(bufs) \o Concat(Tail(bufs))

Slice(buf, from, to) ==
  IF to <= from THEN <<>> ELSE [i \in 1..(to - from) |-> buf[from + i]]

Bytes(from, to) == [i \in 1..(to - from) |-> from + i]

ParseBody(text) == IF text = "j" THEN <<"json", text>> ELSE <<"text", text>>

ContentRange(start, chunk, total) ==
  [start |-> start, end |-> start + Len(chunk) - 1, total |-> total]

\* an upload closure: its constants dataChunk and left, its counter upCount,
\* the PUT it waits for (req) and the answer it ended with (res, text)
Idle == [state |-> "idle", dataChunk |-> <<>>, left |-> <<>>, upCount |-> 0,
         req |-> 0, res |-> <<>>]

Promise ==
  IF calls = <<>> THEN "pending"
  ELSE IF calls[1].kind = "resolve" THEN "resolved" ELSE "rejected"

PromiseValue == IF calls = <<>> THEN <<>> ELSE calls[1].value

\* ------------------------------------------------------------- Init
Init ==
  /\ srcLen \in SrcLens
  /\ cfg \in [filePath : BOOLEAN, fileUrl : BOOLEAN, resumableUrl : BOOLEAN,
              dataSize : DataSizes(srcLen), chunkSize : ChunkSizes]
  /\ pc = "start"
  /\ execErr = ""
  /\ calls = <<>>
  /\ piped = FALSE
  /\ srcPos = 0
  /\ rbuf = <<>>
  /\ ended = FALSE
  /\ flowing = "init"
  /\ endSched = FALSE
  /\ endEmitted = FALSE
  /\ location = ""
  /\ startByte = 0
  /\ bufferData = <<>>
  /\ up = [h \in {"data", "end"} |-> Idle]
  /\ gets = 0
  /\ posts = 0
  /\ puts = <<>>
  /\ errs = 0

\* ------------------------------------------------- the promise executor
\* lines 53-61: the session POST is issued
IssuePost == posts' = posts + 1

\* lines 30-50 for filePath, up to the first await
Start ==
  /\ pc = "start"
  /\ IF ~cfg.resumableUrl \/ cfg.dataSize = 0
     THEN /\ pc' = "thrown"
          /\ execErr' = "Please set resumableUrl and dataSize"
          /\ UNCHANGED <<piped, gets, posts>>
     ELSE IF cfg.filePath /\ ~cfg.fileUrl
     THEN /\ pc' = "post"
          /\ piped' = TRUE
          /\ IssuePost
          /\ UNCHANGED <<execErr, gets>>
     ELSE IF ~cfg.filePath /\ cfg.fileUrl
     THEN /\ pc' = "get"
          /\ gets' = gets + 1
          /\ UNCHANGED <<execErr, piped, posts>>
     ELSE /\ pc' = "thrown"
          /\ execErr' = "Please set filePath or fileUrl"
          /\ UNCHANGED <<piped, gets, posts>>
  /\ UNCHANGED <<cfg, srcLen, calls, srcPos, rbuf, ended, flowing, endSched,
                 endEmitted, location, startByte, bufferData, up, puts, errs>>

\* lines 40-61: the GET of fileUrl is answered, the body is piped
GetAnswered ==
  /\ pc = "get"
  /\ pc' = "post"
  /\ piped' = TRUE
  /\ IssuePost
  /\ UNCHANGED <<cfg, srcLen, execErr, calls, srcPos, rbuf, ended, flowing,
                 endSched, endEmitted, location, startByte, bufferData, up,
                 gets, puts, errs>>

\* a plausible slip: no return after reject, the handlers are attached anyway
ListenAlways(ok) == "flowing"

\* lines 63-74: the stream after the POST was handled: on("data") makes it
\* flow when res2.ok, the return of line 68 leaves it alone otherwise
Listen(ok) == IF ok THEN "flowing" ELSE flowing

\* lines 62-74, 129, 179: the POST is answered
PostAnswered(status, text) ==
  /\ pc = "post"
  /\ flowing' = Listen(status \in 200..299)
  /\ IF status \in 200..299
     THEN /\ location' = "location"
          /\ pc' = "streaming"
          /\ UNCHANGED <<calls, execErr>>
     ELSE IF text = "j"
     THEN /\ calls' = Append(calls, [kind |-> "reject",
                                     value |-> <<status, ParseBody(text)>>])
          /\ pc' = "returned"
          /\ UNCHANGED <<location, execErr>>
     ELSE /\ execErr' = "SyntaxError"   \* res2.json() throws
          /\ pc' = "thrown"
          /\ UNCHANGED <<location, calls>>
  /\ UNCHANGED <<cfg, srcLen, piped, srcPos, rbuf, ended, endSched,
                 endEmitted, startByte, bufferData, up, gets, posts, puts,
                 errs>>

\* Work the stream has queued with process.nextTick: the flow loop of a
\* resumed stream and a scheduled 'end'. It runs before any I/O callback,
\* so no answer and no fragment arrives while it is pending.
TickPending ==
  \/ endSched /\ ~endEmitted
  \/ flowing = "flowing" /\ (rbuf # <<>> \/ (ended /\ ~endSched))

\* ------------------------------------------------------ upload closures
\* a plausible slip: the chunk goes to the URL the session was asked from
PutReqToResumableUrl(h, attempt, chunk) ==
  [who |-> h, attempt |-> attempt,
   range |-> ContentRange(startByte, chunk, cfg.dataSize),
   body |-> chunk, url |-> "resumableUrl", reply |-> "none"]

\* lines 89-97 and 141-149: the PUT of a chunk
PutReq(h, attempt, chunk) ==
  [who |-> h, attempt |-> attempt,
   range |-> ContentRange(startByte, chunk, cfg.dataSize),
   body |-> chunk, url |-> location, reply |-> "none"]

\* a plausible slip: one counter shared by all chunks of a handler
CarriedCount(h) == up[h].upCount

\* lines 81 and 133: let upCount = 0, a new counter for every chunk
FreshCount(h) == 0

\* lines 74-97: the 'data' handler up to the first await
DataHandler(chunk) ==
  LET pushed == Append(bufferData, chunk)
      temp == Concat(pushed)
  IN /\ bufferData' = pushed
     /\ IF Len(temp) >= cfg.chunkSize
        THEN LET dataChunk == Slice(temp, 0, cfg.chunkSize)
                 left == Slice(temp, cfg.chunkSize, Len(temp))
             IN /\ flowing' = "paused"
                /\ puts' = Append(puts, PutReq("data", FreshCount("data"),
                                                dataChunk))
                /\ up' = [up EXCEPT !["data"] =
                            [state |-> "inflight", dataChunk |-> dataChunk,
                             left |-> left, upCount |-> FreshCount("data"),
                             req |-> Len(puts) + 1, res |-> <<>>]]
        ELSE UNCHANGED <<flowing, puts, up>>

\* lines 129-149: the 'end' handler up to the first await
EndHandler ==
  LET dataChunk == Concat(bufferData)
  IN IF Len(dataChunk) > 0
     THEN /\ puts' = Append(puts, PutReq("end", FreshCount("end"),
                                          dataChunk))
          /\ up' = [up EXCEPT !["end"] =
                      [state |-> "inflight", dataChunk |-> dataChunk,
                       left |-> <<>>, upCount |-> FreshCount("end"),
                       req |-> Len(puts) + 1,
                       res |-> <<>>]]
     ELSE UNCHANGED <<puts, up>>

\* line 126: what the 'data' handler does once its upload() has returned
AfterUpload(h) ==
  IF h = "data" THEN bufferData' = <<up[h].left>> ELSE UNCHANGED bufferData

\* a plausible slip: a 308 counts a full chunkSize whatever was sent
AdvanceByChunkSize(h) == startByte + cfg.chunkSize

\* lines 109 and 161: startByte after a 308 to the chunk of closure h
Advance(h) == startByte + Len(up[h].dataChunk)

\* a plausible slip: only the 'data' routine resumes the stream
ResumeDataOnly(h) == IF h = "data" THEN "flowing" ELSE flowing

\* lines 110 and 162: streamTrans.resume() after a 308 to closure h
Resume(h) == "flowing"

\* how lines 100 and 108 classify the status of an answer
Reply(status) ==
  IF status = StatusOK THEN "done"
  ELSE IF status = StatusContinue THEN "continue" ELSE "other"

Answered(h, status) == [puts EXCEPT ![up[h].req].reply = Reply(status)]

\* lines 98-123 and 150-174: a PUT of closure h is answered
PutAnswered(h, status, text) ==
  /\ pc # "crashed"
  /\ up[h].state = "inflight"
  /\ ~TickPending
  /\ IF status = StatusOK
     THEN /\ calls' = Append(calls, [kind |-> "resolve",
                                     value |-> ParseBody(text)])
          /\ up' = [up EXCEPT ![h].state = "done",
                                   ![h].res = <<status, text>>]
          /\ puts' = Answered(h, status)
          /\ AfterUpload(h)
          /\ UNCHANGED <<startByte, flowing, errs>>
     ELSE IF status = StatusContinue
     THEN /\ startByte' = Advance(h)
          /\ flowing' = Resume(h)
          /\ up' = [up EXCEPT ![h].state = "done",
                                   ![h].res = <<status, text>>]
          /\ puts' = Answered(h, status)
          /\ AfterUpload(h)
          /\ UNCHANGED <<calls, errs>>
     ELSE /\ errs < MaxErrors
          /\ errs' = errs + 1
          /\ IF up[h].upCount = MaxRetry
             THEN /\ calls' = Append(calls, [kind |-> "reject",
                                             value |-> <<status, text>>])
                  /\ up' = [up EXCEPT ![h].state = "done",
                                   ![h].res = <<status, text>>]
                  /\ puts' = Answered(h, status)
                  /\ AfterUpload(h)
             ELSE /\ up' = [up EXCEPT ![h].upCount = @ + 1,
                                      ![h].req = Len(puts) + 1]
                  /\ puts' = Append(Answered(h, status),
                                    PutReq(h, up[h].upCount + 1,
                                           up[h].dataChunk))
                  /\ UNCHANGED <<calls, bufferData>>
          /\ UNCHANGED <<startByte, flowing>>
  /\ UNCHANGED <<cfg, srcLen, pc, execErr, piped, srcPos, rbuf, ended,
                 endSched, endEmitted, location, gets, posts>>

\* ------------------------------------------------------------ the stream
\* line 50: mainData writes its next fragment of n bytes into streamTrans;
\* the transform (lines 46-48) passes it on unchanged
SourcePush(n) ==
  /\ pc # "crashed"
  /\ piped
  /\ ~TickPending
  /\ ~ended
  /\ srcPos + n <= srcLen
  /\ srcPos' = srcPos + n
  /\ IF flowing = "flowing" /\ rbuf = <<>>
     THEN /\ DataHandler(Bytes(srcPos, srcPos + n))
          /\ UNCHANGED rbuf
     ELSE /\ rbuf' = Append(rbuf, Bytes(srcPos, srcPos + n))
          /\ UNCHANGED <<bufferData, flowing, puts, up>>
  /\ UNCHANGED <<cfg, srcLen, pc, execErr, calls, piped, ended, endSched,
                 endEmitted, location, startByte, gets, posts, errs>>

\* line 50: mainData ends, pipe ends streamTrans, which pushes EOF
SourceEnd ==
  /\ pc # "crashed"
  /\ piped
  /\ ~TickPending
  /\ ~ended
  /\ srcPos = srcLen
  /\ ended' = TRUE
  /\ UNCHANGED <<cfg, srcLen, pc, execErr, calls, piped, srcPos, rbuf,
                 flowing, endSched, endEmitted, location, startByte,
                 bufferData, up, gets, posts, puts, errs>>

\* lines 37-50: reading the source fails before its end: mainData emits
\* 'error'. pipe() does not pass it to streamTrans, whose listener (line 179)
\* is the only one the code attaches, so the exception is uncaught and the
\* process ends with whatever was in flight.
SourceError ==
  /\ pc \notin {"crashed", "thrown"}
  /\ piped
  /\ ~TickPending
  /\ ~ended
  /\ pc' = "crashed"
  /\ execErr' = "SourceError"
  /\ UNCHANGED <<cfg, srcLen, calls, piped, srcPos, rbuf, ended, flowing,
                 endSched, endEmitted, location, startByte, bufferData, up,
                 gets, posts, puts, errs>>

\* line 74: the flowing stream reads a buffered fragment and emits 'data'
FlowRead ==
  /\ pc # "crashed"
  /\ ~(endSched /\ ~endEmitted)
  /\ flowing = "flowing"
  /\ rbuf # <<>>
  /\ rbuf' = Tail(rbuf)
  /\ endSched' = (endSched \/ (Tail(rbuf) = <<>> /\ ended))
  /\ DataHandler(Head(rbuf))
  /\ UNCHANGED <<cfg, srcLen, pc, execErr, calls, piped, srcPos, ended,
                 endEmitted, location, startByte, gets, posts, errs>>

\* line 129: the flowing stream reads at EOF with an empty buffer
ReadEOF ==
  /\ pc # "crashed"
  /\ flowing = "flowing"
  /\ rbuf = <<>>
  /\ ended
  /\ ~endSched
  /\ endSched' = TRUE
  /\ UNCHANGED <<cfg, srcLen, pc, execErr, calls, piped, srcPos, rbuf, ended,
                 flowing, endEmitted, location, startByte, bufferData, up,
                 gets, posts, puts, errs>>

\* line 129: 'end' is emitted on the tick after it was scheduled
EmitEnd ==
  /\ pc # "crashed"
  /\ endSched
  /\ ~endEmitted
  /\ endEmitted' = TRUE
  /\ EndHandler
  /\ UNCHANGED <<cfg, srcLen, pc, execErr, calls, piped, srcPos, rbuf, ended,
                 flowing, endSched, location, startByte, bufferData, gets,
                 posts, errs>>

Next ==
  \/ Start
  \/ GetAnswered
  \/ \E s \in PostStatuses, t \in Texts : PostAnswered(s, t)
  \/ \E n \in 1..MaxLen : SourcePush(n)
  \/ SourceEnd
  \/ SourceError
  \/ FlowRead
  \/ ReadEOF
  \/ EmitEnd
  \/ \E h \in {"data", "end"}, a \in PutAnswers : PutAnswered(h, a[1], a[2])

Spec == Init /\ [][Next]_vars

\* every request is eventually answered, the source eventually ends and the
\* event loop runs whatever is queued
FairSpec == Spec /\ WF_vars(Next)

\* --------------------------------------------------- derived notions
\* the PUTs that were issued and not answered yet
Outstanding == {i \in DOMAIN puts : puts[i].reply = "none"}

\* the PUTs the server accepted (answered 308 or 200), in the order sent
Accepted == SelectSeq(puts, LAMBDA p : p.reply \in {"continue", "done"})

RECURSIVE Bodies(_)
Bodies(reqs) ==
  IF reqs = <<>> THEN <<>> ELSE Head(reqs).body \o Bodies(Tail(reqs))

Source == Bytes(0, srcLen)

\* a 'data' event is handled in this step: a fragment is pushed (line 75)
DataHandled ==
  /\ Len(bufferData') = Len(bufferData) + 1
  /\ SubSeq(bufferData', 1, Len(bufferData)) = bufferData

\* an 'end' event is handled in this step (line 129)
EndHandled == ~endEmitted /\ endEmitted'

\* the first attempt of the chunk that PUT number i retries
FirstAttempt(i) ==
  LET js == {j \in 1..i : puts[j].who = puts[i].who /\ puts[j].attempt = 0}
  IN CHOOSE j \in js : \A k \in js : k <= j

\* the server answered 308 to every PUT but the last one and 200 to the last
All308ThenDone ==
  /\ puts # <<>>
  /\ \A i \in 1..(Len(puts) - 1) : puts[i].reply = "continue"
  /\ puts[Len(puts)].reply = "done"

\* the last PUT carries the last byte of the source
LastByteSent ==
  /\ puts # <<>>
  /\ \E k \in DOMAIN puts[Len(puts)].body : puts[Len(puts)].body[k] = srcLen

\* closure h gave up: its fourth attempt was answered like the three before
GaveUp(h) ==
  /\ up[h].state = "done"
  /\ up[h].res # <<>>
  /\ up[h].res[1] \notin {StatusOK, StatusContinue}

\* ------------------------------------------------------------ claims

\* C1: when the upload ends in success after 308 to every chunk but the last
\* and 200 to the last, the bodies of the accepted PUTs, concatenated in the
\* order sent, are the source byte sequence: nothing missing, duplicated or
\* reordered.
C1_AcceptedBodiesAreSource ==
  (Promise = "resolved" /\ All308ThenDone /\ LastByteSent)
    => Bodies(Accepted) = Source

\* C2: for a source of dataSize bytes, after 308 to every chunk but the last
\* and 200 to the last, every PUT before the last carries exactly chunkSize
\* bytes, the last carries dataSize mod chunkSize bytes (chunkSize when that
\* is 0), and startByte plus the last chunk's length is dataSize.
C2_ChunkLengths ==
  (Promise = "resolved" /\ All308ThenDone /\ LastByteSent
     /\ cfg.dataSize = srcLen)
    => /\ \A i \in 1..(Len(puts) - 1) : Len(puts[i].body) = cfg.chunkSize
       /\ Len(puts[Len(puts)].body) =
            (IF cfg.dataSize % cfg.chunkSize = 0 THEN cfg.chunkSize
             ELSE cfg.dataSize % cfg.chunkSize)
       /\ startByte + Len(puts[Len(puts)].body) = cfg.dataSize

\* C3: at most one chunk PUT is outstanding, and while one is outstanding no
\* 'data' and no 'end' event of the stream is handled.
C3_OneChunkInFlight ==
  [][/\ Cardinality(Outstanding) <= 1
     /\ Outstanding # {} => (~DataHandled /\ ~EndHandled)]_vars

\* C4: every retry PUT has the Content-Range and the body of the first
\* attempt for its chunk.
C4_RetryIsIdentical ==
  \A i \in DOMAIN puts :
    puts[i].attempt > 0 =>
      /\ puts[i].range = puts[FirstAttempt(i)].range
      /\ puts[i].body = puts[FirstAttempt(i)].body

\* C5: when the fourth attempt of a chunk is also answered with a status
\* other than 200 and 308, the promise is rejected with the status and body
\* of that last attempt, the retry counter never exceeds 3, and no PUT of
\* that chunk is outstanding afterwards.
C5_FourthFailureRejects ==
  \A h \in {"data", "end"} :
    /\ up[h].upCount <= MaxRetry
    /\ GaveUp(h) =>
         /\ Promise = "rejected"
         /\ PromiseValue = up[h].res
         /\ puts[up[h].req].reply = "other"

\* C6: startByte starts at 0; a 308 answer adds exactly the length of the
\* chunk it answers and calls neither resolve nor reject; any other answer,
\* and any other step, leaves startByte as it is.
C6_StartByteAdvance ==
  /\ startByte = 0
  /\ [][IF \E i \in Outstanding : puts'[i].reply = "continue"
        THEN \E i \in Outstanding :
               /\ puts'[i].reply = "continue"
               /\ startByte' = startByte + Len(puts[i].body)
               /\ calls' = calls
        ELSE startByte' = startByte]_vars

\* C6 witness: a 308 was answered and startByte stands past byte 0
C6_Witness ==
  /\ \E i \in DOMAIN puts : puts[i].reply = "continue"
  /\ startByte > 0

\* C7: once a chunk PUT was answered 200 the promise is resolved with the
\* body of that answer and no further network request is issued.
C7_DoneIsFinal ==
  [][(\E h \in {"data", "end"} :
        up[h].state = "done" /\ up[h].res # <<>> /\ up[h].res[1] = StatusOK)
     => /\ Promise = "resolved"
        /\ \E h \in {"data", "end"} :
             /\ up[h].state = "done" /\ up[h].res # <<>>
             /\ up[h].res[1] = StatusOK
             /\ PromiseValue = ParseBody(up[h].res[2])
        /\ gets' = gets /\ posts' = posts /\ Len(puts') = Len(puts)]_vars

\* C8: every invocation eventually settles its promise.
C8_EventuallySettled == <>(Promise # "pending")

\* C9: with resumableUrl empty or dataSize missing, zero or negative, the
\* promise is rejected as soon as the executor has run, and no GET, no POST
\* and no PUT is issued.
C9_BadSizeOrUrlRejects ==
  (pc # "start" /\ (~cfg.resumableUrl \/ cfg.dataSize <= 0))
    => (Promise = "rejected" /\ gets = 0 /\ posts = 0 /\ puts = <<>>)

\* C10: with both or neither of filePath and fileUrl, the promise is rejected
\* as soon as the executor has run, no source is opened and no GET, no POST
\* and no PUT is issued.
C10_BadSourceRejects ==
  (pc # "start" /\ cfg.filePath = cfg.fileUrl)
    => (Promise = "rejected" /\ ~piped /\ gets = 0 /\ posts = 0
        /\ puts = <<>>)

\* the session POST was answered with a status outside 200..299
PostFailed ==
  pc = "returned" \/ (pc = "thrown" /\ execErr = "SyntaxError")

\* C11: when the session POST is answered with a status outside 200..299,
\* the promise is rejected with that status and the body, the POST is not
\* sent again and no chunk PUT is issued.
C11_PostFailureRejects ==
  PostFailed =>
    /\ Promise = "rejected"
    /\ PromiseValue[1] \in PostStatuses \ (200..299)
    /\ posts = 1
    /\ puts = <<>>

\* C12 as stated: before the session negotiation has succeeded the source is
\* not touched: no GET of fileUrl, no source stream, no byte leaving it.
C12_NoSourceBeforeSession ==
  location = "" => (gets = 0 /\ ~piped /\ srcPos = 0)

\* C12 amended: before the session negotiation has succeeded, and for ever
\* after it failed, no fragment reaches the 'data' handler, no 'end' is
\* handled and no chunk PUT is issued; the bytes the source has delivered
\* wait in the buffer of streamTrans.
C12_NoChunkBeforeSession ==
  location = "" =>
    /\ bufferData = <<>> /\ puts = <<>> /\ startByte = 0
    /\ ~endSched /\ ~endEmitted
    /\ Concat(rbuf) = Bytes(0, srcPos)

\* C12 witness: the negotiation failed after the whole source was read into
\* the buffer of streamTrans
C12_Witness ==
  /\ pc = "returned" /\ Promise = "rejected"
  /\ srcLen > 0 /\ srcPos = srcLen /\ ended

\* C13: when reading the source fails, reject is called with that error.
C13_SourceErrorRejects ==
  (pc = "crashed" /\ execErr = "SourceError") =>
    \E k \in DOMAIN calls :
      calls[k].kind = "reject" /\ calls[k].value = <<"SourceError">>

\* C14: for every configured dataSize > 0, startByte plus the length of a
\* chunk in flight does not exceed dataSize, and the end offset of every
\* Content-Range header sent is below its total.
C14_RangeWithinTotal ==
  cfg.dataSize > 0 =>
    /\ \A h \in {"data", "end"} :
         up[h].state = "inflight"
           => startByte + Len(up[h].dataChunk) <= cfg.dataSize
    /\ \A i \in DOMAIN puts : puts[i].range.end < puts[i].range.total

\* the bytes the source has delivered that no PUT has carried yet, in order
Unsent ==
  SelectSeq(Bytes(0, srcPos),
            LAMBDA b : \A i \in DOMAIN puts :
                         \A k \in DOMAIN puts[i].body : puts[i].body[k] # b)

\* C15: when 'end' is handled, a non-empty leftover is sent in exactly one
\* new PUT and an empty leftover in none; the 'end' handler starts at most
\* one chunk, and no PUT has an empty body.
C15_OneLastChunk ==
  [][/\ EndHandled =>
          IF Unsent = <<>> THEN puts' = puts
          ELSE /\ Len(puts') = Len(puts) + 1
               /\ puts'[Len(puts')].body = Unsent
     /\ \A i \in DOMAIN puts' : puts'[i].body # <<>>
     /\ Cardinality({i \in DOMAIN puts' : puts'[i].who = "end"
                                          /\ puts'[i].attempt = 0}) <= 1]_vars

\* a new chunk is started in this step: a PUT is sent that answers nothing
StartsChunk ==
  /\ Len(puts') = Len(puts) + 1
  /\ SubSeq(puts', 1, Len(puts)) = puts

\* the PUT of closure h is answered in this step with a status of class r
AnsweredAs(h, r) ==
  /\ up[h].state = "inflight"
  /\ puts'[up[h].req].reply = r

\* C16: the retry counter is per chunk. Every chunk starts with count 0,
\* whatever the earlier chunks used; a failure before the third retry sends
\* the next retry and reports nothing; only a failure of the third retry is
\* reported; a 308 to any attempt counts the chunk and reports nothing.
C16_RetryCountPerChunk ==
  [][/\ StartsChunk =>
          LET p == puts'[Len(puts')]
          IN /\ p.attempt = 0
             /\ up'[p.who].upCount = 0
     /\ \A h \in {"data", "end"} :
          /\ AnsweredAs(h, "continue") =>
               /\ calls' = calls
               /\ startByte' = startByte + Len(puts[up[h].req].body)
               /\ Len(puts') = Len(puts)
          /\ AnsweredAs(h, "other") =>
               IF puts[up[h].req].attempt < MaxRetry
               THEN /\ calls' = calls
                    /\ Len(puts') = Len(puts) + 1
                    /\ puts'[Len(puts')].who = h
                    /\ puts'[Len(puts')].attempt = puts[up[h].req].attempt + 1
               ELSE /\ Len(calls') = Len(calls) + 1
                    /\ calls'[Len(calls')].kind = "reject"
                    /\ Len(puts') = Len(puts)]_vars

\* a chunk is accepted after a failed attempt, and a later chunk, starting
\* from 0 again, has gone through all three of its retries
C16_Witness ==
  \E i, j \in DOMAIN puts :
    /\ i < j
    /\ puts[i].attempt >= 1
    /\ puts[i].reply = "continue"
    /\ FirstAttempt(j) > i
    /\ puts[j].attempt = MaxRetry
    /\ calls = <<>>

\* C17: once reject has been called no further PUT is sent and neither
\* resolve nor reject is called again; once resolve has been called reject
\* is never called.
C17_FailureIsTerminal ==
  [][/\ Promise = "rejected" =>
          /\ Len(puts') = Len(puts)
          /\ calls' = calls
     /\ Promise = "resolved" =>
          \A k \in DOMAIN calls' : calls'[k].kind = "reject" => k = 1]_vars

\* the source is exhausted, its 'end' is handled, and the last PUT sent was
\* answered 308 with nothing else outstanding
Final308 ==
  /\ ended
  /\ endEmitted
  /\ puts # <<>>
  /\ Outstanding = {}
  /\ puts[Len(puts)].reply = "continue"

\* C18: when the source is exhausted and the last chunk sent was answered
\* 308, the promise is rejected.
C18_Final308IsError == Final308 => Promise = "rejected"

\* the PUTs answered 308 so far, in the order sent
Continued == SelectSeq(puts, LAMBDA p : p.reply = "continue")

RECURSIVE SumLen(_)
SumLen(reqs) ==
  IF reqs = <<>> THEN 0 ELSE Len(Head(reqs).body) + SumLen(Tail(reqs))

\* C19: a PUT, when sent, starts at the sum of the lengths of the chunks
\* answered 308 before and ends at start + len - 1; the ranges of successive
\* accepted chunks are contiguous: each starts at the previous end + 1.
C19_RangesContiguous ==
  /\ [][Len(puts') = Len(puts) + 1 =>
          LET p == puts'[Len(puts')]
          IN /\ p.range.start = SumLen(Continued)
             /\ p.range.end = p.range.start + Len(p.body) - 1]_vars
  /\ [](\A k \in 1..(Len(Accepted) - 1) :
          Accepted[k + 1].range.start = Accepted[k].range.end + 1)

\* C20: the session POST is issued once, before any PUT; every PUT, retries
\* included, goes to the location that POST returned, and the location never
\* changes once set.
C20_OnePostOneLocation ==
  /\ [](posts <= 1)
  /\ [](pc \in {"post", "streaming", "returned"} => posts = 1)
  /\ [](puts # <<>> =>
          /\ posts = 1
          /\ location # ""
          /\ \A i \in DOMAIN puts : puts[i].url = location)
  /\ [][/\ posts' >= posts
        /\ posts' # posts => puts' = <<>>
        /\ location # "" => location' = location]_vars

\* a second chunk is being retried at the location of the session
C20_Witness ==
  \E i, j \in DOMAIN puts :
    /\ i < j
    /\ puts[i].reply = "continue"
    /\ puts[j].attempt >= 1
    /\ puts[j].url = location
    /\ posts = 1

\* the upload of the 'data' handler returns in this step (lines 125-126)
DataUploadReturns ==
  /\ up["data"].state = "inflight"
  /\ up'["data"].state = "done"

\* C21: when a chunk cut by the 'data' handler has been uploaded, the bytes
\* kept in the buffer for the next cycle are fewer than chunkSize, whatever
\* the size of the fragments.
C21_LeftoverBelowChunk ==
  [][DataUploadReturns => Len(Concat(bufferData')) < cfg.chunkSize]_vars

\* lines 100-121: what the upload routine of the 'data' handler does with an
\* answer of class r to a chunk of len bytes at retry count count; res is
\* the status and text of the answer
Transition(r, count, len, res) ==
  [startByte |-> IF r = "continue" THEN startByte + len ELSE startByte,
   flowing |-> IF r = "continue" THEN "flowing" ELSE flowing,
   upCount |-> IF r = "other" /\ count < MaxRetry THEN count + 1 ELSE count,
   retry |-> r = "other" /\ count < MaxRetry,
   calls |-> IF r = "done"
             THEN Append(calls, [kind |-> "resolve",
                                 value |-> ParseBody(res[2])])
             ELSE IF r = "other" /\ count = MaxRetry
             THEN Append(calls, [kind |-> "reject", value |-> res])
             ELSE calls]

\* what this step did for closure h
Effect(h) ==
  [startByte |-> startByte',
   flowing |-> flowing',
   upCount |-> up'[h].upCount,
   retry |-> /\ Len(puts') = Len(puts) + 1
             /\ puts'[Len(puts')].who = h
             /\ puts'[Len(puts')].body = up[h].dataChunk
             /\ puts'[Len(puts')].attempt = up[h].upCount + 1,
   calls |-> calls']

\* C22: the upload routine of the 'data' handler and that of the 'end'
\* handler make the same transition on the same answer: both do to
\* startByte, the retry counter, the stream and the promise what lines
\* 100-121 say, for 200, 308 and any other status.
C22_SameTransition ==
  [][\A h \in {"data", "end"} : \A r \in {"done", "continue", "other"} :
       AnsweredAs(h, r) =>
         Effect(h) = Transition(r, up[h].upCount, Len(up[h].dataChunk),
                                up'[h].res)]_vars

\* both routines have had a failure retried and a 308
C22_Witness ==
  \A h \in {"data", "end"} :
    /\ \E i \in DOMAIN puts : puts[i].who = h /\ puts[i].reply = "other"
    /\ \E i \in DOMAIN puts : puts[i].who = h /\ puts[i].reply = "continue"

\* C23: the leftover of the 'data' handler is stored before the next event
\* is handled: no fragment is pushed into bufferData while the handler's
\* upload is still to return, and when the 308 to its chunk arrives the
\* 'end' handler has not yet read the buffer.
C23_LeftoverStoredFirst ==
  [][/\ DataHandled => up["data"].state # "inflight"
     /\ AnsweredAs("data", "continue") => ~endEmitted]_vars

====
